---- MODULE Spec2Model ----
(***************************************************************************)
(* jsonsql: Value[T] (NOT NULL JSON column) and Nullable[T] (NULL-able     *)
(* JSON column), their Scan / Value / Get / ToPtr methods and the          *)
(* constructors, over three payload types T.                               *)
(*                                                                         *)
(* A byte sequence is a sequence of runes, each rune a one-character       *)
(* string; "\\v", "\\u0085" and "\\u00a0" name the vertical tab, NEL and   *)
(* the no-break space, which TLA+ strings cannot spell.                    *)
(***************************************************************************)
EXTENDS Naturals, Sequences, FiniteSets, TLC

VARIABLES T, v, n, dirty, res

vars == <<T, v, n, dirty, res>>

----------------------------------------------------------------------------
(* Bounds of the model.                                                    *)

\* total number of padding runes put around a padded document (both sides)
MaxPad == 2

\* longest []int payload handed to a constructor
MaxLen == 1

----------------------------------------------------------------------------
(* Runes.                                                                  *)

VT == "\\v"
NEL == "\\u0085"
NBSP == "\\u00a0"

\* the four whitespace runes of the JSON grammar (encoding/json scanner)
JsonSpace == {" ", "\t", "\n", "\r"}

\* unicode.IsSpace on Latin-1, the predicate bytes.TrimSpace trims by
UnicodeSpace == {"\t", "\n", VT, "\f", "\r", " ", NEL, NBSP}

\* runes below 0x20 that the model's alphabet holds: not allowed in a string
ControlRunes == {"\t", "\n", VT, "\f", "\r"}

Digits == {"0", "1", "2", "3", "4", "5", "6", "7", "8", "9"}

DigitVal(c) ==
    CASE c = "0" -> 0 [] c = "1" -> 1 [] c = "2" -> 2 [] c = "3" -> 3
      [] c = "4" -> 4 [] c = "5" -> 5 [] c = "6" -> 6 [] c = "7" -> 7
      [] c = "8" -> 8 [] c = "9" -> 9

DigitRune(d) ==
    CASE d = 0 -> "0" [] d = 1 -> "1" [] d = 2 -> "2" [] d = 3 -> "3"
      [] d = 4 -> "4" [] d = 5 -> "5" [] d = 6 -> "6" [] d = 7 -> "7"
      [] d = 8 -> "8" [] d = 9 -> "9"

NullLiteral == <<"n", "u", "l", "l">>

----------------------------------------------------------------------------
(* bytes.TrimSpace: drop the leading and the trailing runes that           *)
(* unicode.IsSpace accepts.                                                *)

RECURSIVE TrimLeft(_)
TrimLeft(s) ==
    IF s # <<>> /\ Head(s) \in UnicodeSpace THEN TrimLeft(Tail(s)) ELSE s

\* a trim that forgets the trailing side
TrimSpaceLeftOnly(s) == TrimLeft(s)

RECURSIVE TrimRight(_)
TrimRight(s) ==
    IF s # <<>> /\ s[Len(s)] \in UnicodeSpace
    THEN TrimRight(SubSeq(s, 1, Len(s) - 1))
    ELSE s

TrimSpace(s) == TrimRight(TrimLeft(s))

\* bytes.Equal(bytes.TrimSpace(data), []byte("null"))
IsNullLiteral(data) == TrimSpace(data) = NullLiteral

----------------------------------------------------------------------------
(* encoding/json, decoding side: the scanner (syntax) as a recursive       *)
(* descent over the runes, producing the document tree.                    *)
(*   [k |-> "null"]  [k |-> "num", num |-> 1]  [k |-> "str", str |-> s]    *)
(*   [k |-> "arr", elems |-> <<tree>>]                                     *)
(*   [k |-> "obj", members |-> <<[key |-> s, val |-> tree]>>]              *)
(* The alphabet of the documents holds no backslash, sign, fraction or     *)
(* exponent and no true/false, so those productions are left out.          *)

SyntaxFail == [ok |-> FALSE, i |-> 0, val |-> [k |-> "none"]]

Parsed(i, val) == [ok |-> TRUE, i |-> i, val |-> val]

\* first position at or after i that holds no JSON whitespace
RECURSIVE SkipSpace(_, _)
SkipSpace(s, i) ==
    IF i <= Len(s) /\ s[i] \in JsonSpace THEN SkipSpace(s, i + 1) ELSE i

\* the digits of a number from position i on, with the value so far
RECURSIVE ScanDigits(_, _, _)
ScanDigits(s, i, acc) ==
    IF i <= Len(s) /\ s[i] \in Digits
    THEN ScanDigits(s, i + 1, acc * 10 + DigitVal(s[i]))
    ELSE Parsed(i, [k |-> "num", num |-> acc])

\* a number: 0, or a non-zero digit followed by digits
ScanNumber(s, i) ==
    IF s[i] = "0"
    THEN Parsed(i + 1, [k |-> "num", num |-> 0])
    ELSE ScanDigits(s, i, 0)

\* the runes of a string from position i (after the opening quote) on
RECURSIVE ScanString(_, _, _)
ScanString(s, i, acc) ==
    IF i > Len(s) THEN SyntaxFail
    ELSE IF s[i] = "\"" THEN Parsed(i + 1, [k |-> "str", str |-> acc])
    ELSE IF s[i] \in ControlRunes \/ s[i] = "\\" THEN SyntaxFail
    ELSE ScanString(s, i + 1, Append(acc, s[i]))

RECURSIVE ScanValue(_, _)
RECURSIVE ScanElems(_, _, _)
RECURSIVE ScanMembers(_, _, _)

\* the elements of an array, position i at the start of an element
ScanElems(s, i, acc) ==
    LET e == ScanValue(s, i) IN
    IF ~e.ok THEN SyntaxFail
    ELSE LET j == SkipSpace(s, e.i) IN
         IF j > Len(s) THEN SyntaxFail
         ELSE IF s[j] = "," THEN ScanElems(s, j + 1, Append(acc, e.val))
         ELSE IF s[j] = "]"
              THEN Parsed(j + 1, [k |-> "arr", elems |-> Append(acc, e.val)])
         ELSE SyntaxFail

\* the members of an object, position i at the start of a key
ScanMembers(s, i, acc) ==
    LET j == SkipSpace(s, i) IN
    IF j > Len(s) \/ s[j] # "\"" THEN SyntaxFail
    ELSE LET key == ScanString(s, j + 1, <<>>) IN
         IF ~key.ok THEN SyntaxFail
         ELSE LET c == SkipSpace(s, key.i) IN
              IF c > Len(s) \/ s[c] # ":" THEN SyntaxFail
              ELSE LET e == ScanValue(s, c + 1) IN
                   IF ~e.ok THEN SyntaxFail
                   ELSE LET m == Append(acc, [key |-> key.val.str, val |-> e.val])
                            d == SkipSpace(s, e.i)
                        IN IF d > Len(s) THEN SyntaxFail
                           ELSE IF s[d] = "," THEN ScanMembers(s, d + 1, m)
                           ELSE IF s[d] = "}"
                                THEN Parsed(d + 1, [k |-> "obj", members |-> m])
                           ELSE SyntaxFail

ScanValue(s, i) ==
    LET j == SkipSpace(s, i) IN
    IF j > Len(s) THEN SyntaxFail
    ELSE IF s[j] = "n"
         THEN IF j + 3 <= Len(s) /\ SubSeq(s, j, j + 3) = NullLiteral
              THEN Parsed(j + 4, [k |-> "null"])
              ELSE SyntaxFail
    ELSE IF s[j] = "\"" THEN ScanString(s, j + 1, <<>>)
    ELSE IF s[j] \in Digits THEN ScanNumber(s, j)
    ELSE IF s[j] = "["
         THEN LET c == SkipSpace(s, j + 1) IN
              IF c <= Len(s) /\ s[c] = "]"
              THEN Parsed(c + 1, [k |-> "arr", elems |-> <<>>])
              ELSE ScanElems(s, j + 1, <<>>)
    ELSE IF s[j] = "{"
         THEN LET c == SkipSpace(s, j + 1) IN
              IF c <= Len(s) /\ s[c] = "}"
              THEN Parsed(c + 1, [k |-> "obj", members |-> <<>>])
              ELSE ScanMembers(s, j + 1, <<>>)
    ELSE SyntaxFail

\* checkValid: one value, JSON whitespace around it, nothing else
ParseJSON(s) ==
    LET r == ScanValue(s, 1) IN
    IF r.ok /\ SkipSpace(s, r.i) > Len(s) THEN r ELSE SyntaxFail

----------------------------------------------------------------------------
(* Payload types T and their values.                                       *)
(*   testProfile       struct{Name, Email string}, json keys name, email   *)
(*   []int             [nil |-> TRUE] is the nil slice, otherwise elems    *)
(*   unmarshalableType struct{Ch chan int}                                 *)

Types == {"testProfile", "[]int", "unmarshalableType"}

\* var zero T
Zero(t) ==
    CASE t = "testProfile" -> [Name |-> <<>>, Email |-> <<>>]
      [] t = "[]int" -> [nil |-> TRUE, elems |-> <<>>]
      [] t = "unmarshalableType" -> [Ch |-> "nil"]

KeyName == <<"n", "a", "m", "e">>
KeyEmail == <<"e", "m", "a", "i", "l">>
KeyCh == <<"C", "h">>

----------------------------------------------------------------------------
(* encoding/json, decoding side: storing a document tree into a target of  *)
(* type T that already holds a value.  A tree of the wrong kind is skipped *)
(* with an UnmarshalTypeError and the decoding goes on; the target keeps   *)
(* whatever the document does not overwrite.                               *)

Stored(val, err) == [val |-> val, err |-> err]

\* into a string field
StoreString(tree, old) ==
    IF tree.k = "str" THEN Stored(tree.str, FALSE)
    ELSE IF tree.k = "null" THEN Stored(old, FALSE)
    ELSE Stored(old, TRUE)

\* into an int element
StoreInt(tree, old) ==
    IF tree.k = "num" THEN Stored(tree.num, FALSE)
    ELSE IF tree.k = "null" THEN Stored(old, FALSE)
    ELSE Stored(old, TRUE)

\* into a chan field: only null is accepted, and stores nothing
StoreChan(tree, old) ==
    IF tree.k = "null" THEN Stored(old, FALSE) ELSE Stored(old, TRUE)

\* the members of an object into a testProfile, in document order
RECURSIVE StoreProfileMembers(_, _, _, _)
StoreProfileMembers(members, i, cur, err) ==
    IF i > Len(members) THEN Stored(cur, err)
    ELSE LET m == members[i] IN
         IF m.key = KeyName
         THEN LET f == StoreString(m.val, cur.Name) IN
              StoreProfileMembers(members, i + 1,
                                  [cur EXCEPT !.Name = f.val], err \/ f.err)
         ELSE IF m.key = KeyEmail
         THEN LET f == StoreString(m.val, cur.Email) IN
              StoreProfileMembers(members, i + 1,
                                  [cur EXCEPT !.Email = f.val], err \/ f.err)
         ELSE StoreProfileMembers(members, i + 1, cur, err)

\* the members of an object into an unmarshalableType
RECURSIVE StoreChanMembers(_, _, _, _)
StoreChanMembers(members, i, cur, err) ==
    IF i > Len(members) THEN Stored(cur, err)
    ELSE LET m == members[i] IN
         IF m.key = KeyCh
         THEN LET f == StoreChan(m.val, cur.Ch) IN
              StoreChanMembers(members, i + 1,
                               [cur EXCEPT !.Ch = f.val], err \/ f.err)
         ELSE StoreChanMembers(members, i + 1, cur, err)

\* the elements of an array into a []int: element i is decoded in place
\* when the slice already has it, and into zeroed storage otherwise
RECURSIVE StoreIntElems(_, _, _, _, _)
StoreIntElems(elems, i, old, acc, err) ==
    IF i > Len(elems) THEN Stored([nil |-> FALSE, elems |-> acc], err)
    ELSE LET before == IF i <= Len(old) THEN old[i] ELSE 0
             e == StoreInt(elems[i], before)
         IN StoreIntElems(elems, i + 1, old, Append(acc, e.val), err \/ e.err)

\* decodeState.value into a target of type t holding old
Store(tree, old, t) ==
    IF t = "testProfile"
    THEN IF tree.k = "obj"
         THEN StoreProfileMembers(tree.members, 1, old, FALSE)
         ELSE IF tree.k = "null" THEN Stored(old, FALSE)
         ELSE Stored(old, TRUE)
    ELSE IF t = "[]int"
    THEN IF tree.k = "arr"
         THEN StoreIntElems(tree.elems, 1, old.elems, <<>>, FALSE)
         ELSE IF tree.k = "null" THEN Stored(Zero(t), FALSE)
         ELSE Stored(old, TRUE)
    ELSE IF tree.k = "obj"
         THEN StoreChanMembers(tree.members, 1, old, FALSE)
         ELSE IF tree.k = "null" THEN Stored(old, FALSE)
         ELSE Stored(old, TRUE)

\* json.Unmarshal(data, &target): a syntax error is found before anything
\* is stored; a type error is reported after the rest has been stored
Unmarshal(data, old, t) ==
    LET doc == ParseJSON(data) IN
    IF ~doc.ok THEN [err |-> "SyntaxError", val |-> old]
    ELSE LET r == Store(doc.val, old, t) IN
         [err |-> IF r.err THEN "UnmarshalTypeError" ELSE "nil", val |-> r.val]

----------------------------------------------------------------------------
(* encoding/json, encoding side.                                           *)

Quote(s) == <<"\"">> \o s \o <<"\"">>

\* the decimal digits of a natural number
RECURSIVE Decimal(_)
Decimal(k) ==
    IF k < 10 THEN <<DigitRune(k)>>
    ELSE Append(Decimal(k \div 10), DigitRune(k % 10))

\* the elements of a []int from position i on, comma separated
RECURSIVE JoinInts(_, _)
JoinInts(elems, i) ==
    IF i > Len(elems) THEN <<>>
    ELSE (IF i > 1 THEN <<",">> ELSE <<>>) \o Decimal(elems[i])
         \o JoinInts(elems, i + 1)

\* json.Marshal(x) for x of type t
Marshal(x, t) ==
    IF t = "testProfile"
    THEN [err |-> "nil",
          data |-> <<"{">> \o Quote(KeyName) \o <<":">> \o Quote(x.Name)
                   \o <<",">> \o Quote(KeyEmail) \o <<":">> \o Quote(x.Email)
                   \o <<"}">>]
    ELSE IF t = "[]int"
    THEN [err |-> "nil",
          data |-> IF x.nil THEN NullLiteral
                   ELSE <<"[">> \o JoinInts(x.elems, 1) \o <<"]">>]
    ELSE [err |-> "UnsupportedTypeError", data |-> <<>>]

----------------------------------------------------------------------------
(* Raw sources handed to Scan and driver values returned by Value.         *)

ByteShapes == {"[]byte", "string", "json.RawMessage"}

\* src == nil, and the nil driver.Value
NilSrc == [type |-> "nil", data |-> <<>>]

Bytes(data) == [type |-> "[]byte", data |-> data]

NoErr == [kind |-> "nil", detail |-> ""]

Err(kind, detail) == [kind |-> kind, detail |-> detail]

----------------------------------------------------------------------------
(* Value[T], the NOT NULL box.                                             *)

\* Value[T]{V: x}
NewValueOf(x) == [V |-> x]

\* Value.Get
Value_Get(box) == box.V

\* Value.Scan that takes the null literal to the codec
Value_Scan_NoNullCheck(box, src, t) ==
    IF src.type = "nil"
    THEN [box |-> box, err |-> Err("NullNotAllowed", "")]
    ELSE IF src.type \notin ByteShapes
    THEN [box |-> box, err |-> Err("UnsupportedSourceType", src.type)]
    ELSE LET u == Unmarshal(src.data, box.V, t) IN
         [box |-> [V |-> u.val],
          err |-> IF u.err # "nil" THEN Err("DecodeFailed", u.err) ELSE NoErr]

\* Value.Scan that clears V before it checks the source
Value_Scan_ClearsFirst(box, src, t) ==
    IF src.type = "nil"
    THEN [box |-> [V |-> Zero(t)], err |-> Err("NullNotAllowed", "")]
    ELSE IF src.type \notin ByteShapes
    THEN [box |-> [V |-> Zero(t)], err |-> Err("UnsupportedSourceType", src.type)]
    ELSE IF IsNullLiteral(src.data)
    THEN [box |-> [V |-> Zero(t)], err |-> Err("NullNotAllowed", "")]
    ELSE LET u == Unmarshal(src.data, Zero(t), t) IN
         [box |-> [V |-> u.val],
          err |-> IF u.err # "nil" THEN Err("DecodeFailed", u.err) ELSE NoErr]

\* Value.Scan that takes an empty source for NULL, as Nullable.Scan does
Value_Scan_EmptyIsNull(box, src, t) ==
    IF src.type = "nil"
    THEN [box |-> box, err |-> Err("NullNotAllowed", "")]
    ELSE IF src.type \notin ByteShapes
    THEN [box |-> box, err |-> Err("UnsupportedSourceType", src.type)]
    ELSE IF Len(src.data) = 0 \/ IsNullLiteral(src.data)
    THEN [box |-> box, err |-> Err("NullNotAllowed", "")]
    ELSE LET u == Unmarshal(src.data, box.V, t) IN
         [box |-> [V |-> u.val],
          err |-> IF u.err # "nil" THEN Err("DecodeFailed", u.err) ELSE NoErr]

\* Value.Scan whose default case forgets to return: data stays nil
Value_Scan_DefaultFallsThrough(box, src, t) ==
    IF src.type = "nil"
    THEN [box |-> box, err |-> Err("NullNotAllowed", "")]
    ELSE LET data == IF src.type \in ByteShapes THEN src.data ELSE <<>> IN
         IF IsNullLiteral(data)
         THEN [box |-> box, err |-> Err("NullNotAllowed", "")]
         ELSE LET u == Unmarshal(data, box.V, t) IN
              [box |-> [V |-> u.val],
               err |-> IF u.err # "nil" THEN Err("DecodeFailed", u.err)
                       ELSE NoErr]

\* Value.Scan
Value_Scan(box, src, t) ==
    IF src.type = "nil"
    THEN [box |-> box, err |-> Err("NullNotAllowed", "")]
    ELSE IF src.type \notin ByteShapes
    THEN [box |-> box, err |-> Err("UnsupportedSourceType", src.type)]
    ELSE IF IsNullLiteral(src.data)
    THEN [box |-> box, err |-> Err("NullNotAllowed", "")]
    ELSE LET u == Unmarshal(src.data, box.V, t) IN
         [box |-> [V |-> u.val],
          err |-> IF u.err # "nil" THEN Err("DecodeFailed", u.err) ELSE NoErr]

\* Value.Value
Value_Value(box, t) ==
    LET m == Marshal(box.V, t) IN
    IF m.err # "nil"
    THEN [out |-> NilSrc, err |-> Err("EncodeFailed", m.err)]
    ELSE [out |-> Bytes(m.data), err |-> NoErr]

----------------------------------------------------------------------------
(* Nullable[T], the NULL-able box.                                         *)

\* NullableFrom
NullableFrom(x) == [V |-> x, Valid |-> TRUE]

\* Null
Null(t) == [V |-> Zero(t), Valid |-> FALSE]

\* NewNullable that keeps v when valid is false
NewNullable_KeepsValue(x, valid, t) == [V |-> x, Valid |-> valid]

\* NewNullable
NewNullable(x, valid, t) == IF ~valid THEN Null(t) ELSE NullableFrom(x)

\* NullableFromPtr; ptr is [nil |-> TRUE] or [nil |-> FALSE, val |-> x]
NullableFromPtr(ptr, t) == IF ptr.nil THEN Null(t) ELSE NullableFrom(ptr.val)

\* Nullable.ToPtr with a pointer receiver: the address of the box's own V
Nullable_ToPtr_OwnStorage(box, t) ==
    IF ~box.Valid
    THEN [ref |-> "nil", val |-> Zero(t)]
    ELSE [ref |-> "box", val |-> box.V]

\* Nullable.ToPtr: the receiver is a copy of the box, and the pointer is
\* the address of the copy's V
Nullable_ToPtr(box, t) ==
    IF ~box.Valid
    THEN [ref |-> "nil", val |-> Zero(t)]
    ELSE [ref |-> "copy", val |-> box.V]

\* Nullable.Get
Nullable_Get(box) == [V |-> box.V, Valid |-> box.Valid]

\* an invalidation that forgets to clear V
Invalidate_KeepsValue(box, t) == [box EXCEPT !.Valid = FALSE]

\* n.Valid = false; var zero T; n.V = zero
Invalidate(box, t) == [V |-> Zero(t), Valid |-> FALSE]

\* Nullable.Scan that forgets Valid = true after a successful decode
Nullable_Scan_ForgetsValid(box, src, t) ==
    IF src.type = "nil"
    THEN [box |-> Invalidate(box, t), err |-> NoErr]
    ELSE IF src.type \notin ByteShapes
    THEN [box |-> box, err |-> Err("UnsupportedSourceType", src.type)]
    ELSE IF Len(src.data) = 0
    THEN [box |-> Invalidate(box, t), err |-> NoErr]
    ELSE IF IsNullLiteral(src.data)
    THEN [box |-> Invalidate(box, t), err |-> NoErr]
    ELSE LET u == Unmarshal(src.data, box.V, t) IN
         [box |-> [box EXCEPT !.V = u.val],
          err |-> IF u.err # "nil" THEN Err("DecodeFailed", u.err) ELSE NoErr]

\* Nullable.Scan that sets Valid = true before it asks the codec
Nullable_Scan_ValidBeforeDecode(box, src, t) ==
    IF src.type = "nil"
    THEN [box |-> Invalidate(box, t), err |-> NoErr]
    ELSE IF src.type \notin ByteShapes
    THEN [box |-> box, err |-> Err("UnsupportedSourceType", src.type)]
    ELSE IF Len(src.data) = 0
    THEN [box |-> Invalidate(box, t), err |-> NoErr]
    ELSE IF IsNullLiteral(src.data)
    THEN [box |-> Invalidate(box, t), err |-> NoErr]
    ELSE LET u == Unmarshal(src.data, box.V, t) IN
         [box |-> [V |-> u.val, Valid |-> TRUE],
          err |-> IF u.err # "nil" THEN Err("DecodeFailed", u.err) ELSE NoErr]

\* Nullable.Scan
Nullable_Scan(box, src, t) ==
    IF src.type = "nil"
    THEN [box |-> Invalidate(box, t), err |-> NoErr]
    ELSE IF src.type \notin ByteShapes
    THEN [box |-> box, err |-> Err("UnsupportedSourceType", src.type)]
    ELSE IF Len(src.data) = 0
    THEN [box |-> Invalidate(box, t), err |-> NoErr]
    ELSE IF IsNullLiteral(src.data)
    THEN [box |-> Invalidate(box, t), err |-> NoErr]
    ELSE LET u == Unmarshal(src.data, box.V, t) IN
         IF u.err # "nil"
         THEN [box |-> [box EXCEPT !.V = u.val],
               err |-> Err("DecodeFailed", u.err)]
         ELSE [box |-> [V |-> u.val, Valid |-> TRUE], err |-> NoErr]

\* Nullable.Value that always asks the codec
Nullable_Value_AlwaysEncodes(box, t) ==
    LET m == Marshal(box.V, t) IN
    IF m.err # "nil"
    THEN [out |-> NilSrc, err |-> Err("EncodeFailed", m.err), codec |-> TRUE]
    ELSE [out |-> IF box.Valid THEN Bytes(m.data) ELSE NilSrc,
          err |-> NoErr, codec |-> TRUE]

\* Nullable.Value; codec tells whether json.Marshal was called
Nullable_Value(box, t) ==
    IF ~box.Valid
    THEN [out |-> NilSrc, err |-> NoErr, codec |-> FALSE]
    ELSE LET m == Marshal(box.V, t) IN
         IF m.err # "nil"
         THEN [out |-> NilSrc, err |-> Err("EncodeFailed", m.err),
               codec |-> TRUE]
         ELSE [out |-> Bytes(m.data), err |-> NoErr, codec |-> TRUE]

----------------------------------------------------------------------------
(* Inputs: the payloads handed to the constructors and the raw sources     *)
(* handed to Scan.                                                         *)

Str == {<<>>, <<"a">>}

\* the sequences over S of length at most k
RECURSIVE SeqsUpTo(_, _)
SeqsUpTo(S, k) ==
    IF k = 0 THEN {<<>>}
    ELSE LET shorter == SeqsUpTo(S, k - 1) IN
         shorter \cup {Append(q, c) : q \in shorter, c \in S}

Payloads(t) ==
    CASE t = "testProfile" -> [Name : Str, Email : Str]
      [] t = "[]int" ->
            {[nil |-> TRUE, elems |-> <<>>]}
            \cup {[nil |-> FALSE, elems |-> q] : q \in SeqsUpTo({0, 1}, MaxLen)}
      [] t = "unmarshalableType" -> {[Ch |-> "nil"], [Ch |-> "chan"]}

\* the runes put around a padded document
PadRunes == {" ", "\t", "\n", "\r", VT}

\* the documents that are padded on both sides
PaddedBodies == {NullLiteral}

\* the documents used as they are
PlainBodies ==
    { <<"{", "\"", "n", "a", "m", "e", "\"", ":", "\"", "a", "\"", "}">>,
      <<"{", "\"", "e", "m", "a", "i", "l", "\"", ":", "\"", "a", "\"", "}">>,
      <<"{", "\"", "n", "a", "m", "e", "\"", ":", "\"", "\"", "}">>,
      <<"{", "\"", "n", "a", "m", "e", "\"", ":", "\"", "a", "\"", ",",
        "\"", "e", "m", "a", "i", "l", "\"", ":", "1", "}">>,
      <<"{", "\"", "e", "m", "a", "i", "l", "\"", ":", "1", ",",
        "\"", "n", "a", "m", "e", "\"", ":", "\"", "a", "\"", "}">>,
      <<"{", "}">>,
      <<"{", "a", "}">>,
      <<"[", "]">>,
      <<" ", "[", "]", "\n">>,
      <<VT, "[", "]">>,
      <<"[", "1", "]">>,
      <<"[", "0", ",", "1", "]">>,
      <<"[", "1">>,
      <<"1">>,
      <<"\"", "a", "\"">>,
      <<"N", "u", "l", "l">>,
      <<"N", "U", "L", "L">>,
      <<" ", "N", "U", "L", "L", " ">>,
      <<NBSP, "n", "u", "l", "l">>,
      <<"n", "u", "l", "l", "\f">>,
      <<"n", "u", "l">>,
      <<"n", "u", "l", "l", "l">>,
      <<"n", "u", " ", "l", "l">>,
      <<" ">> }

Padded ==
    {l \o body \o r :
        l \in SeqsUpTo(PadRunes, MaxPad),
        r \in SeqsUpTo(PadRunes, MaxPad),
        body \in PaddedBodies}

Contents ==
    {<<>>} \cup PlainBodies
    \cup {d \in Padded : Len(d) <= Len(NullLiteral) + MaxPad}

\* an int such as 123, and a sql.RawBytes (a named []byte type, which the
\* type switch does not take for a []byte) holding null
Sources ==
    {NilSrc, [type |-> "int", data |-> <<>>],
     [type |-> "sql.RawBytes", data |-> NullLiteral]}
    \cup {[type |-> shape, data |-> d] : shape \in ByteShapes, d \in Contents}

\* what *T arguments the caller has: nil, or the address of some x
Pointers(t) ==
    {[nil |-> TRUE, val |-> Zero(t)]}
    \cup {[nil |-> FALSE, val |-> x] : x \in Payloads(t)}

----------------------------------------------------------------------------
(* State: one Value[T] box v and one Nullable[T] box n of a client, and    *)
(* res, the call that has returned and that the client is looking at.      *)
(* dirty is a history variable: n's Scan has failed in the codec since n   *)
(* was last constructed or successfully scanned.                           *)

Idle == [op |-> "idle", src |-> NilSrc, err |-> NoErr, out |-> <<>>]

Result(op, src, err, out) == [op |-> op, src |-> src, err |-> err, out |-> out]

TypeOK ==
    /\ T \in Types
    /\ res.op \in {"idle", "Value.Scan", "Value.Value", "Value.Get",
                   "Value.Roundtrip", "Nullable.Scan", "Nullable.Value",
                   "Nullable.Get", "Nullable.ToPtr", "Nullable.Roundtrip",
                   "PtrWrite", "ScanBoth"}

Init ==
    /\ T \in Types
    /\ v = [V |-> Zero(T)]
    /\ n = [V |-> Zero(T), Valid |-> FALSE]
    /\ dirty = FALSE
    /\ res = Idle

\* the client is done with the returned result
Return ==
    /\ res.op # "idle"
    /\ res' = Idle
    /\ UNCHANGED <<T, v, n, dirty>>

\* v = NewValue(x)
NewValue ==
    /\ res.op = "idle"
    /\ \E x \in Payloads(T) : v' = NewValueOf(x)
    /\ UNCHANGED <<T, n, dirty, res>>

\* v.Get()
ValueGet ==
    /\ res.op = "idle"
    /\ res' = Result("Value.Get", NilSrc, NoErr, Value_Get(v))
    /\ UNCHANGED <<T, v, n, dirty>>

\* err = v.Scan(src)
ValueScan ==
    /\ res.op = "idle"
    /\ \E src \in Sources :
          LET r == Value_Scan(v, src, T) IN
          /\ v' = r.box
          /\ res' = Result("Value.Scan", src, r.err, [before |-> v])
    /\ UNCHANGED <<T, n, dirty>>

\* data, err = v.Value()
ValueValue ==
    /\ res.op = "idle"
    /\ LET r == Value_Value(v, T) IN
       res' = Result("Value.Value", NilSrc, r.err, r.out)
    /\ UNCHANGED <<T, v, n, dirty>>

\* data, err := v.Value(); var restored Value[T]; err = restored.Scan(data)
ValueRoundtrip ==
    /\ res.op = "idle"
    /\ LET enc == Value_Value(v, T)
           dec == Value_Scan([V |-> Zero(T)], enc.out, T)
       IN IF enc.err # NoErr
          THEN res' = Result("Value.Roundtrip", enc.out, enc.err,
                             [encoded |-> FALSE, restored |-> [V |-> Zero(T)]])
          ELSE res' = Result("Value.Roundtrip", enc.out, dec.err,
                             [encoded |-> TRUE, restored |-> dec.box])
    /\ UNCHANGED <<T, v, n, dirty>>

\* n = NewNullable(x, valid)
NewNullableCall ==
    /\ res.op = "idle"
    /\ \E x \in Payloads(T), valid \in BOOLEAN : n' = NewNullable(x, valid, T)
    /\ dirty' = FALSE
    /\ UNCHANGED <<T, v, res>>

\* n = NullableFrom(x)
NullableFromCall ==
    /\ res.op = "idle"
    /\ \E x \in Payloads(T) : n' = NullableFrom(x)
    /\ dirty' = FALSE
    /\ UNCHANGED <<T, v, res>>

\* n = Null[T]()
NullCall ==
    /\ res.op = "idle"
    /\ n' = Null(T)
    /\ dirty' = FALSE
    /\ UNCHANGED <<T, v, res>>

\* n = NullableFromPtr(ptr)
NullableFromPtrCall ==
    /\ res.op = "idle"
    /\ \E ptr \in Pointers(T) : n' = NullableFromPtr(ptr, T)
    /\ dirty' = FALSE
    /\ UNCHANGED <<T, v, res>>

\* n = Nullable[T]{V: x, Valid: valid}: the fields are exported
NullableLiteral ==
    /\ res.op = "idle"
    /\ \E x \in Payloads(T), valid \in BOOLEAN : n' = [V |-> x, Valid |-> valid]
    /\ dirty' = FALSE
    /\ UNCHANGED <<T, v, res>>

\* n.Get()
NullableGet ==
    /\ res.op = "idle"
    /\ res' = Result("Nullable.Get", NilSrc, NoErr, Nullable_Get(n))
    /\ UNCHANGED <<T, v, n, dirty>>

\* ptr := n.ToPtr()
NullableToPtr ==
    /\ res.op = "idle"
    /\ res' = Result("Nullable.ToPtr", NilSrc, NoErr, Nullable_ToPtr(n, T))
    /\ UNCHANGED <<T, v, n, dirty>>

\* *ptr = x, through the pointer ToPtr has just returned
PtrWrite ==
    /\ res.op = "Nullable.ToPtr"
    /\ res.out.ref # "nil"
    /\ \E x \in Payloads(T) :
          /\ res' = Result("PtrWrite", NilSrc, NoErr,
                           [ref |-> res.out.ref, val |-> x, before |-> n])
          /\ n' = IF res.out.ref = "box" THEN [n EXCEPT !.V = x] ELSE n
    /\ UNCHANGED <<T, v, dirty>>

\* err = n.Scan(src)
NullableScan ==
    /\ res.op = "idle"
    /\ \E src \in Sources :
          LET Returned(r) ==
                  /\ n' = r.box
                  /\ dirty' = IF r.err.kind = "DecodeFailed" THEN TRUE
                               ELSE IF r.err = NoErr THEN FALSE
                               ELSE dirty
                  /\ res' = Result("Nullable.Scan", src, r.err, [before |-> n])
          IN Returned(Nullable_Scan(n, src, T))
    /\ UNCHANGED <<T, v>>

\* n.Value() with a pointer receiver that invalidates the box when the
\* codec fails
NullableValue_InvalidatesOnFailure ==
    /\ res.op = "idle"
    /\ LET r == Nullable_Value(n, T) IN
       /\ res' = Result("Nullable.Value", NilSrc, r.err,
                        [data |-> r.out, codec |-> r.codec])
       /\ n' = IF r.err # NoErr THEN Invalidate(n, T) ELSE n
    /\ UNCHANGED <<T, v, dirty>>

\* data, err = n.Value()
NullableValue ==
    /\ res.op = "idle"
    /\ LET r == Nullable_Value(n, T) IN
       res' = Result("Nullable.Value", NilSrc, r.err,
                     [data |-> r.out, codec |-> r.codec])
    /\ UNCHANGED <<T, v, n, dirty>>

\* nerr = n.Scan(src), right after verr = v.Scan(src) of the same source
\* into a Value box that held the V that n holds
ScanBoth ==
    /\ res.op = "Value.Scan"
    /\ res.out.before.V = n.V
    /\ LET Returned(rn) ==
               /\ n' = rn.box
               /\ dirty' = IF rn.err.kind = "DecodeFailed" THEN TRUE
                            ELSE IF rn.err = NoErr THEN FALSE
                            ELSE dirty
               /\ res' = Result("ScanBoth", res.src, NoErr,
                                [vbefore |-> res.out.before, nbefore |-> n,
                                 verr |-> res.err, nerr |-> rn.err])
       IN Returned(Nullable_Scan(n, res.src, T))
    /\ UNCHANGED <<T, v>>

\* data, err := n.Value(); var restored Nullable[T]; err = restored.Scan(data)
NullableRoundtrip ==
    /\ res.op = "idle"
    /\ LET enc == Nullable_Value(n, T)
           dec == Nullable_Scan(Null(T), enc.out, T)
       IN IF enc.err # NoErr
          THEN res' = Result("Nullable.Roundtrip", enc.out, enc.err,
                             [encoded |-> FALSE, restored |-> Null(T)])
          ELSE res' = Result("Nullable.Roundtrip", enc.out, dec.err,
                             [encoded |-> TRUE, restored |-> dec.box])
    /\ UNCHANGED <<T, v, n, dirty>>

Next ==
    \/ Return
    \/ NewValue
    \/ ValueGet
    \/ ValueScan
    \/ ValueValue
    \/ ValueRoundtrip
    \/ NewNullableCall
    \/ NullableFromCall
    \/ NullCall
    \/ NullableFromPtrCall
    \/ NullableLiteral
    \/ NullableGet
    \/ NullableToPtr
    \/ PtrWrite
    \/ NullableScan
    \/ ScanBoth
    \/ NullableValue
    \/ NullableRoundtrip

Spec == Init /\ [][Next]_vars

\* the constructors followed by Scan calls only
NextCtor ==
    \/ Return
    \/ NewNullableCall
    \/ NullableFromCall
    \/ NullCall
    \/ NullableFromPtrCall
    \/ NullableScan

SpecCtor == Init /\ [][NextCtor]_vars

----------------------------------------------------------------------------
(* The null literal as the interface defines it: the token null with any   *)
(* number of space, tab, newline and carriage return on either side.       *)

PaddedNull(d) ==
    \E i \in 0..Len(d) :
        /\ i + Len(NullLiteral) <= Len(d)
        /\ SubSeq(d, i + 1, i + Len(NullLiteral)) = NullLiteral
        /\ \A k \in 1..Len(d) :
              (k <= i \/ k > i + Len(NullLiteral)) => d[k] \in JsonSpace

\* a byte sequence, string or raw message holding a padded null
PaddedNullSrc(src) == src.type \in ByteShapes /\ PaddedNull(src.data)

\* an empty byte sequence, string or raw message
EmptySrc(src) == src.type \in ByteShapes /\ src.data = <<>>

\* the codec can encode x and, on its own, decodes the encoding back to x
CodecRoundTrips(x, t) ==
    /\ Marshal(x, t).err = "nil"
    /\ Unmarshal(Marshal(x, t).data, Zero(t), t) = [err |-> "nil", val |-> x]

----------------------------------------------------------------------------
(* C1. In every state reached by the constructors followed by Scan calls,  *)
(* as first stated: whatever the calls returned, a box that reports        *)
(* Valid = false holds the zero value of T.                                *)
C1_InvalidAlwaysZero == ~n.Valid => n.V = Zero(T)

(* C1, as amended: a box that reports Valid = false holds the zero value   *)
(* of T unless a Scan has failed in the codec (DecodeFailed) since the box *)
(* was last constructed or successfully scanned.                           *)
C1_InvalidZeroUnlessDecodeFailed == (~n.Valid /\ ~dirty) => n.V = Zero(T)

\* a Scan of a null document has invalidated a valid, non-zero box
C1_Witness ==
    /\ res.op = "Nullable.Scan"
    /\ PaddedNullSrc(res.src)
    /\ res.out.before.Valid
    /\ res.out.before.V # Zero(T)
    /\ ~n.Valid
    /\ ~dirty
    /\ n.V = Zero(T)

----------------------------------------------------------------------------
(* C2. Value round trip, as first stated: for every payload the codec can  *)
(* encode, Value() succeeds and Scan of its bytes into a fresh box         *)
(* succeeds and gives the payload back.                                    *)
C2_RoundtripAlways ==
    (res.op = "Value.Roundtrip" /\ Marshal(v.V, T).err = "nil")
        => /\ res.out.encoded
           /\ res.err = NoErr
           /\ res.out.restored.V = v.V

(* C2, as amended: for every payload the codec can encode and decodes     *)
(* back on its own, Value() succeeds; when the encoding is not the         *)
(* document null, Scan of the bytes into a fresh box succeeds and gives    *)
(* the payload back; when the encoding is the document null, Scan fails    *)
(* with NullNotAllowed and the fresh box stays zero.                       *)
C2_RoundtripUnlessNull ==
    (res.op = "Value.Roundtrip" /\ CodecRoundTrips(v.V, T))
        => /\ res.out.encoded
           /\ res.src.type = "[]byte"
           /\ IF res.src.data = NullLiteral
              THEN /\ res.err.kind = "NullNotAllowed"
                   /\ res.out.restored.V = Zero(T)
              ELSE /\ res.err = NoErr
                   /\ res.out.restored.V = v.V

\* a non-zero payload has gone through Value() and Scan and come back
C2_Witness ==
    /\ res.op = "Value.Roundtrip"
    /\ v.V # Zero(T)
    /\ res.out.encoded
    /\ res.src.data # NullLiteral
    /\ res.err = NoErr
    /\ res.out.restored.V = v.V

----------------------------------------------------------------------------
(* C3. Nullable round trip, as first stated: for every box built by        *)
(* NullableFrom(x), x encodable, or by Null(), Scan of the result of       *)
(* Value() into a fresh box succeeds and gives an equal box.               *)
C3_RoundtripAlways ==
    (/\ res.op = "Nullable.Roundtrip"
     /\ n.Valid \/ n = Null(T)
     /\ n.Valid => Marshal(n.V, T).err = "nil")
        => /\ res.out.encoded
           /\ res.err = NoErr
           /\ res.out.restored = n

(* C3, as amended: for such a box (x also decoded back by the codec on    *)
(* its own), Value() and the Scan into a fresh box                         *)
(* succeed; the fresh box equals the original when the box is Null() or    *)
(* its payload's encoding is not the document null, and is the Null() box  *)
(* (Valid = false, zero value) when the payload's encoding is the document *)
(* null.                                                                   *)
C3_RoundtripUnlessNull ==
    (/\ res.op = "Nullable.Roundtrip"
     /\ n.Valid \/ n = Null(T)
     /\ n.Valid => CodecRoundTrips(n.V, T))
        => /\ res.out.encoded
           /\ res.err = NoErr
           /\ IF n.Valid /\ res.src.data = NullLiteral
              THEN res.out.restored = Null(T)
              ELSE res.out.restored = n
           /\ n.Valid => res.src.type = "[]byte"
           /\ ~n.Valid => res.src = NilSrc

\* a valid, non-zero box has gone through Value() and Scan and come back
C3_Witness ==
    /\ res.op = "Nullable.Roundtrip"
    /\ n.Valid
    /\ n.V # Zero(T)
    /\ res.src.data # NullLiteral
    /\ res.err = NoErr
    /\ res.out.restored = n

----------------------------------------------------------------------------
(* C4. Value.Scan of a nil source, or of a byte sequence, string or raw    *)
(* message holding null with any whitespace around it, fails with          *)
(* NullNotAllowed: never DecodeFailed, never success.                      *)
C4_NullNotAllowed ==
    (res.op = "Value.Scan" /\ (res.src = NilSrc \/ PaddedNullSrc(res.src)))
        => res.err.kind = "NullNotAllowed"

\* a string with whitespace on both sides of null was refused
C4_Witness ==
    /\ res.op = "Value.Scan"
    /\ res.src.type = "string"
    /\ PaddedNull(res.src.data)
    /\ Head(res.src.data) \in JsonSpace
    /\ res.src.data[Len(res.src.data)] \in JsonSpace
    /\ res.err.kind = "NullNotAllowed"

----------------------------------------------------------------------------
(* C5. Nullable.Scan of a nil source, of an empty byte sequence, string or *)
(* raw message, or of null with any whitespace around it, succeeds from    *)
(* any prior state of the box and leaves Valid = false and V zero.         *)
C5_NullInvalidates ==
    (/\ res.op = "Nullable.Scan"
     /\ res.src = NilSrc \/ EmptySrc(res.src) \/ PaddedNullSrc(res.src))
        => /\ res.err = NoErr
           /\ ~n.Valid
           /\ n.V = Zero(T)

\* a valid, non-zero box was invalidated by a padded null in a raw message
C5_Witness ==
    /\ res.op = "Nullable.Scan"
    /\ res.src.type = "json.RawMessage"
    /\ PaddedNull(res.src.data)
    /\ Len(res.src.data) > Len(NullLiteral)
    /\ res.out.before.Valid
    /\ res.out.before.V # Zero(T)
    /\ res.err = NoErr
    /\ n = Null(T)

----------------------------------------------------------------------------
(* C6. Nullable.Value on a box with Valid = false succeeds and returns the *)
(* nil driver value without calling the codec, whatever V holds.           *)
C6_InvalidEncodesNil ==
    (res.op = "Nullable.Value" /\ ~n.Valid)
        => /\ res.err = NoErr
           /\ res.out.data = NilSrc
           /\ ~res.out.codec

\* an invalid box whose V the codec cannot encode was encoded
C6_Witness ==
    /\ res.op = "Nullable.Value"
    /\ ~n.Valid
    /\ n.V # Zero(T)
    /\ Marshal(n.V, T).err # "nil"
    /\ res.err = NoErr
    /\ res.out.data = NilSrc

----------------------------------------------------------------------------
(* C7. In both boxes a non-empty byte sequence, string or raw message is   *)
(* treated as the null literal (NullNotAllowed from Value.Scan, success    *)
(* with Valid = false from Nullable.Scan) if and only if it is the token   *)
(* null with only space, tab, newline and carriage return around it.       *)
C7_NullLiteralExact ==
    /\ (res.op = "Value.Scan" /\ res.src.type \in ByteShapes
        /\ res.src.data # <<>>)
          => (res.err.kind = "NullNotAllowed" <=> PaddedNull(res.src.data))
    /\ (res.op = "Nullable.Scan" /\ res.src.type \in ByteShapes
        /\ res.src.data # <<>>)
          => ((res.err = NoErr /\ ~n.Valid) <=> PaddedNull(res.src.data))

----------------------------------------------------------------------------
(* C8. After a successful decode the value is the payload decoded from the *)
(* source alone: it is what a box holding the zero value ends with, so     *)
(* nothing of the previous value is left.                                  *)
C8_DecodeReplaces ==
    /\ (res.op = "Value.Scan" /\ res.err = NoErr)
          => v.V = Unmarshal(res.src.data, Zero(T), T).val
    /\ (res.op = "Nullable.Scan" /\ res.err = NoErr /\ n.Valid)
          => n.V = Unmarshal(res.src.data, Zero(T), T).val

----------------------------------------------------------------------------
(* C9. Value.Scan that fails with NullNotAllowed or UnsupportedSourceType  *)
(* leaves V as it was before the call.                                     *)
C9_FailedPrecheckKeepsValue ==
    (/\ res.op = "Value.Scan"
     /\ res.err.kind \in {"NullNotAllowed", "UnsupportedSourceType"})
        => v = res.out.before

\* a non-zero box refused a null document and kept its value
C9_Witness ==
    /\ res.op = "Value.Scan"
    /\ res.err.kind = "NullNotAllowed"
    /\ PaddedNullSrc(res.src)
    /\ res.out.before.V # Zero(T)
    /\ v = res.out.before

----------------------------------------------------------------------------
(* C10. ToPtr, as first stated: nil when Valid = false, and otherwise a    *)
(* pointer into the box, so that a later Get on the box returns what was   *)
(* written through the pointer.                                            *)
C10_PointerAliasesBox ==
    /\ res.op = "Nullable.ToPtr" => (res.out.ref = "nil" <=> ~n.Valid)
    /\ res.op = "PtrWrite" => Nullable_Get(n).V = res.out.val

(* C10, as amended: nil when Valid = false, and otherwise a pointer to a   *)
(* copy of V as it was at the call; a write through the pointer changes    *)
(* the copy only, and a later Get on the box returns what it returned      *)
(* before the write.                                                       *)
C10_PointerToCopy ==
    /\ res.op = "Nullable.ToPtr"
          => /\ res.out.ref = "nil" <=> ~n.Valid
             /\ n.Valid => res.out.val = n.V
    /\ res.op = "PtrWrite"
          => /\ res.out.before.Valid
             /\ Nullable_Get(n) = Nullable_Get(res.out.before)

\* a value other than the box's was written through the pointer
C10_Witness ==
    /\ res.op = "PtrWrite"
    /\ n.Valid
    /\ res.out.val # n.V
    /\ Nullable_Get(n).V = res.out.before.V

----------------------------------------------------------------------------
(* C11. A successful Nullable.Scan ends with Valid = false if and only if  *)
(* the source was nil, an empty byte sequence, string or raw message, or   *)
(* the null literal (null with space, tab, newline, carriage return around *)
(* it); every other source that decodes ends with Valid = true, and the    *)
(* document [] decoded into a []int gives Valid = true and an empty slice  *)
(* that is not nil.                                                        *)
C11_ValidUnlessNull ==
    (res.op = "Nullable.Scan" /\ res.err = NoErr)
        => /\ ~n.Valid <=> \/ res.src = NilSrc
                           \/ EmptySrc(res.src)
                           \/ PaddedNullSrc(res.src)
           /\ (T = "[]int" /\ res.src.type \in ByteShapes
               /\ res.src.data = <<"[", "]">>)
                 => /\ n.Valid
                    /\ ~n.V.nil
                    /\ Len(n.V.elems) = 0

----------------------------------------------------------------------------
(* C12. Scan on either box of a source that is not nil and is none of      *)
(* []byte, string and json.RawMessage fails with UnsupportedSourceType     *)
(* naming the type of the source; neither the null check nor the codec     *)
(* decides the outcome (no NullNotAllowed, no DecodeFailed, no             *)
(* invalidation) and the box is left as it was.                            *)
C12_UnsupportedSourceType ==
    /\ (res.op = "Value.Scan" /\ res.src.type \notin ByteShapes \cup {"nil"})
          => /\ res.err = Err("UnsupportedSourceType", res.src.type)
             /\ v = res.out.before
    /\ (res.op = "Nullable.Scan" /\ res.src.type \notin ByteShapes \cup {"nil"})
          => /\ res.err = Err("UnsupportedSourceType", res.src.type)
             /\ n = res.out.before

\* a valid, non-zero Nullable box was handed a sql.RawBytes holding null
C12_Witness ==
    /\ res.op = "Nullable.Scan"
    /\ res.src.type = "sql.RawBytes"
    /\ res.src.data = NullLiteral
    /\ res.out.before.Valid
    /\ res.out.before.V # Zero(T)
    /\ res.err.kind = "UnsupportedSourceType"
    /\ res.err.detail = "sql.RawBytes"
    /\ n = res.out.before

----------------------------------------------------------------------------
(* C13. Get, Value and ToPtr of a Nullable box and Get and Value of a      *)
(* Value box leave V and Valid of both boxes as they were, whether they    *)
(* succeed or fail; a Nullable box changes only in a Scan call or when a   *)
(* constructor builds a new box, and a Value box only in a Scan call or    *)
(* when NewValue builds a new box.                                         *)
ReadOps ==
    {"Value.Get", "Value.Value", "Nullable.Get", "Nullable.Value",
     "Nullable.ToPtr"}

C13_OnlyDecodeAndConstructionChange ==
    [][/\ (res.op = "idle" /\ res'.op \in ReadOps) => (v' = v /\ n' = n)
       /\ n' # n => \/ /\ \/ res.op = "idle" /\ res'.op = "Nullable.Scan"
                          \/ res.op = "Value.Scan" /\ res'.op = "ScanBoth"
                       /\ n' = Nullable_Scan(n, res'.src, T).box
                    \/ NewNullableCall
                    \/ NullableFromCall
                    \/ NullCall
                    \/ NullableFromPtrCall
                    \/ NullableLiteral
       /\ v' # v => \/ /\ res.op = "idle"
                       /\ res'.op = "Value.Scan"
                       /\ v' = Value_Scan(v, res'.src, T).box
                    \/ NewValue]_vars

\* Value() has failed in the codec on a valid, non-zero box, which is
\* still valid
C13_Witness ==
    /\ res.op = "Nullable.Value"
    /\ res.err.kind = "EncodeFailed"
    /\ n.Valid
    /\ n.V # Zero(T)

----------------------------------------------------------------------------
(* C14. Value.Scan and Nullable.Scan of the same source into boxes holding *)
(* the same V: Nullable.Scan succeeds with Valid = false exactly when      *)
(* Value.Scan fails with NullNotAllowed or the source is an empty byte     *)
(* sequence, string or raw message; on an empty source Value.Scan fails    *)
(* with DecodeFailed, not NullNotAllowed; on every other source the two    *)
(* return the same kind of error, or both succeed with the same V.         *)
C14_SameNullBoundary ==
    res.op = "ScanBoth"
        => LET atBoundary == \/ res.out.verr.kind = "NullNotAllowed"
                             \/ EmptySrc(res.src)
           IN /\ (res.out.nerr = NoErr /\ ~n.Valid) <=> atBoundary
              /\ EmptySrc(res.src) => res.out.verr.kind = "DecodeFailed"
              /\ ~atBoundary
                    => /\ res.out.verr.kind = res.out.nerr.kind
                       /\ res.out.verr = NoErr => (n.Valid /\ v.V = n.V)

\* two boxes holding the same non-zero V were handed an empty source: the
\* Value box failed in the codec, the Nullable box was invalidated
C14_Witness ==
    /\ res.op = "ScanBoth"
    /\ EmptySrc(res.src)
    /\ res.out.nbefore.Valid
    /\ res.out.nbefore.V # Zero(T)
    /\ res.out.verr.kind = "DecodeFailed"
    /\ v = res.out.vbefore
    /\ res.out.nerr = NoErr
    /\ n = Null(T)

----------------------------------------------------------------------------
(* C15. Nullable.Scan that returns an error returns UnsupportedSourceType  *)
(* or DecodeFailed and leaves Valid as it was before the call, so Get      *)
(* still reports a box valid that was valid, even when DecodeFailed has    *)
(* left V partly overwritten; after UnsupportedSourceType V is as it was   *)
(* too.                                                                    *)
C15_FailedScanKeepsValid ==
    (res.op = "Nullable.Scan" /\ res.err # NoErr)
        => /\ res.err.kind \in {"UnsupportedSourceType", "DecodeFailed"}
           /\ Nullable_Get(n).Valid = res.out.before.Valid
           /\ res.err.kind = "UnsupportedSourceType"
                 => Nullable_Get(n).V = res.out.before.V

\* a valid box has failed in the codec with V partly overwritten, and is
\* still valid
C15_Witness ==
    /\ res.op = "Nullable.Scan"
    /\ res.err.kind = "DecodeFailed"
    /\ res.out.before.Valid
    /\ n.V # res.out.before.V
    /\ Nullable_Get(n).Valid

====
